---- MODULE Spec2Model ----
(***************************************************************************)
(* Terrain streaming of the parkour game: NoiseGenerator and               *)
(* TerrainGenerator of project/game/static_generators/terrain_generator.py *)
(*                                                                         *)
(* Numbers.  Python floats are modelled in fixed point: a real v is the    *)
(* integer v * FP, products are rescaled by FP (rounding down).  World     *)
(* coordinates are counted in half world units (WU per unit), so that the  *)
(* mesh grid (step 2.0), the colour samples (+-2.0) and the slope samples  *)
(* of the feature scatter (+-0.5) are all exact.                           *)
(***************************************************************************)
EXTENDS Integers, Sequences, FiniteSets, TLC

None == <<>>

\* fixed-point scale of the modelled floats (1.0 is FP)
FP == 1000
\* model coordinates per world unit (a coordinate c stands for c / WU)
WU == 2

Abs(a) == IF a < 0 THEN -a ELSE a
Max(a, b) == IF a >= b THEN a ELSE b
\* a * b of two fixed-point numbers
Mul(a, b) == (a * b) \div FP

(***************************************************************************)
(* The process-wide generator of the random module.  Its state is one      *)
(* integer; seed() sets it from the seed alone, every draw advances it.    *)
(* (The Mersenne Twister is replaced by a small linear congruential        *)
(* generator: what the program relies on is that seeding is deterministic  *)
(* and that the state is shared by every user of the module.)              *)
(***************************************************************************)
RngModulus == 65537
RngMultiplier == 75
RngIncrement == 74

\* random.seed(a): an int seed is used by absolute value
RandomSeed(a) == Abs(a) % RngModulus
\* the generator's state after one draw
RandomNext(s) == (s * RngMultiplier + RngIncrement) % RngModulus
\* random._randbelow(n) drawn in state s (the state after the draw is RandomNext(s))
RandBelow(s, n) == RandomNext(s) % n

(***************************************************************************)
(* NoiseGenerator                                                          *)
(***************************************************************************)
PermSize == 256
GradCount == 8

\* swap of two places of a sequence (1-based places)
Swap(seq, a, b) == [seq EXCEPT ![a] = seq[b], ![b] = seq[a]]

\* random.shuffle(x): for i in reversed(range(1, len(x))): j = randbelow(i + 1); swap.
\* ShuffleSteps runs the loop from the 0-based index i down to index stop + 1 and
\* returns the list and the generator's state; Shuffle runs the whole loop, a block
\* of 16 indexes at a time (the blocks keep the evaluation shallow, and the test
\* of Len has the list evaluated at every step).
RECURSIVE ShuffleSteps(_, _, _, _)
ShuffleSteps(seq, i, stop, s) ==
    IF i < 1 \/ i <= stop \/ Len(seq) = 0 THEN [list |-> seq, rng |-> s]
    ELSE ShuffleSteps(Swap(seq, i + 1, RandBelow(s, i + 1) + 1), i - 1, stop, RandomNext(s))

RECURSIVE Shuffle(_, _, _)
Shuffle(seq, i, s) ==
    IF i < 1 \/ Len(seq) = 0 THEN [list |-> seq, rng |-> s]
    ELSE LET part == ShuffleSteps(seq, i, i - 16, s)
         IN  Shuffle(part.list, i - 16, part.rng)

\* NoiseGenerator.__init__(seed): gen is the generator built (seed, perm, grad2),
\* rng the state the constructor leaves the random module in
NoiseGeneratorInit(seed) ==
    LET sh == Shuffle([k \in 1..PermSize |-> k - 1], PermSize - 1, RandomSeed(seed))
    IN  [gen |-> [seed  |-> seed,
                  perm  |-> sh.list \o sh.list,
                  grad2 |-> << <<1, 1>>, <<-1, 1>>, <<1, -1>>, <<-1, -1>>,
                               <<1, 0>>, <<-1, 0>>, <<0, 1>>, <<0, -1>> >>],
         rng |-> sh.rng]

\* NoiseGenerator.__init__ from line 22 on, the random module being in state s
NoiseGeneratorFrom(seed, s) ==
    LET sh == Shuffle([k \in 1..PermSize |-> k - 1], PermSize - 1, s)
    IN  [gen |-> [seed  |-> seed,
                  perm  |-> sh.list \o sh.list,
                  grad2 |-> << <<1, 1>>, <<-1, 1>>, <<1, -1>>, <<-1, -1>>,
                               <<1, 0>>, <<-1, 0>>, <<0, 1>>, <<0, -1>> >>],
         rng |-> sh.rng]

\* self.perm[i] and self.grad2[i] (Python indexes from 0)
PermAt(ng, i) == ng.perm[i + 1]
GradAt(ng, i) == ng.grad2[i + 1]

\* an index used as it is, without the mask
NoWrap(i) == i

\* i & 255: the low eight bits, for negative i as well
Wrap(i) == i % 256

\* g_idx of _gradient
GradIndex(ng, ix, iy) == PermAt(ng, Wrap(ix + PermAt(ng, Wrap(iy)))) % GradCount

\* the second lookup of line 85 and the one of line 86, the first one having
\* used index inner: the indexes used, the gradient selected, and whether an
\* index lay outside its table
OuterLookup(ng, inner, outer) ==
    IF outer \notin 0..(Len(ng.perm) - 1)
    THEN [inner |-> inner, outer |-> outer, g_idx |-> -1, raised |-> TRUE]
    ELSE [inner |-> inner, outer |-> outer, g_idx |-> PermAt(ng, outer) % GradCount,
          raised |-> (PermAt(ng, outer) % GradCount) \notin 0..(Len(ng.grad2) - 1)]

\* the lookups of _gradient(ix, iy, ., .), lines 85-86
GradientLookup(ng, ix, iy) ==
    IF Wrap(iy) \notin 0..(Len(ng.perm) - 1)
    THEN [inner |-> Wrap(iy), outer |-> -1, g_idx |-> -1, raised |-> TRUE]
    ELSE OuterLookup(ng, Wrap(iy), Wrap(ix + PermAt(ng, Wrap(iy))))

\* the lookups of the four _gradient calls of noise2d, lines 45-48, for
\* the wrapped cell (ix, iy)
CornerLookups(ng, ix, iy) ==
    <<GradientLookup(ng, ix, iy), GradientLookup(ng, ix, iy + 1),
      GradientLookup(ng, ix + 1, iy), GradientLookup(ng, ix + 1, iy + 1)>>

\* the lookups of noise2d for a point of the integer cell (cx, cy), lines 36-48
CellLookups(ng, cx, cy) == CornerLookups(ng, Wrap(cx), Wrap(cy))

\* g[0] * fx + g[1] * fy
Dot(g, fx, fy) == g[1] * fx + g[2] * fy

\* _gradient(ix, iy, fx, fy)
Gradient(ng, ix, iy, fx, fy) == Dot(GradAt(ng, GradIndex(ng, ix, iy)), fx, fy)

\* _fade(t) = t * t * t * (t * (t * 6 - 15) + 10)
Fade(t) == Mul(Mul(Mul(t, t), t), Mul(t, t * 6 - 15 * FP) + 10 * FP)

\* _lerp(a, b, t)
Lerp(a, b, t) == a + Mul(t, b - a)

\* the 0.707 of noise2d
SimplexScale == 707

\* noise2d from line 45 on: (ix, iy) the wrapped integer coordinates, (fx, fy)
\* the fractional coordinates
NoiseCell(ng, ix, iy, fx, fy) ==
    Mul(Lerp(Lerp(Gradient(ng, ix, iy, fx, fy),
                  Gradient(ng, ix + 1, iy, fx - FP, fy), Fade(fx)),
             Lerp(Gradient(ng, ix, iy + 1, fx, fy - FP),
                  Gradient(ng, ix + 1, iy + 1, fx - FP, fy - FP), Fade(fx)),
             Fade(fy)),
        SimplexScale)

\* noise2d(x, y), x and y fixed-point: floor, fraction (x - floor(x)), & 255
Noise2d(ng, x, y) ==
    NoiseCell(ng, Wrap(x \div FP), Wrap(y \div FP),
              x - (x \div FP) * FP, y - (y \div FP) * FP)

\* the 1e-6 of fbm: the smallest positive fixed-point number
Epsilon == 1

\* a loop of fbm that runs once more than octaves asks for
RECURSIVE FbmLoopAndOnce(_, _, _, _, _, _, _, _, _)
FbmLoopAndOnce(ng, x, y, k, persistence, lacunarity, total, frequency, amplitude) ==
    IF k <= 0 THEN total + Mul(Noise2d(ng, Mul(x, frequency), Mul(y, frequency)), amplitude)
    ELSE FbmLoopAndOnce(ng, x, y, k - 1, persistence, lacunarity,
                        total + Mul(Noise2d(ng, Mul(x, frequency), Mul(y, frequency)), amplitude),
                        Mul(frequency, lacunarity), Mul(amplitude, persistence))

\* the loop of fbm, k octaves left
RECURSIVE FbmLoop(_, _, _, _, _, _, _, _, _)
FbmLoop(ng, x, y, k, persistence, lacunarity, total, frequency, amplitude) ==
    IF k <= 0 THEN total
    ELSE FbmLoop(ng, x, y, k - 1, persistence, lacunarity,
                 total + Mul(Noise2d(ng, Mul(x, frequency), Mul(y, frequency)), amplitude),
                 Mul(frequency, lacunarity), Mul(amplitude, persistence))

\* a max_value that no octave is added to
FbmMaxValueNone(k, persistence, amplitude) == 0

\* max_value of fbm after k octaves
RECURSIVE FbmMaxValue(_, _, _)
FbmMaxValue(k, persistence, amplitude) ==
    IF k <= 0 THEN 0
    ELSE amplitude + FbmMaxValue(k - 1, persistence, Mul(amplitude, persistence))

\* fbm(x, y, octaves, persistence, lacunarity)
Fbm(ng, x, y, octaves, persistence, lacunarity) ==
    (FbmLoop(ng, x, y, octaves, persistence, lacunarity, 0, FP, FP) * FP)
        \div Max(FbmMaxValue(octaves, persistence, FP), Epsilon)

(***************************************************************************)
(* TerrainGenerator: configuration                                         *)
(***************************************************************************)
\* the seed the configuration gives the modelled generator
ModelSeed == 13
\* the chunk_size the configuration gives it
ModelChunkSize == 10

\* _get_terrain_settings() with a terrain_generation section that gives seed
\* and chunk_size (the other keys keep their defaults), then the three
\* overrides of __init__ (detail_mesh_size, view_distance, feature_density).
\* Reals are fixed-point, chunk_size and octaves are ints.
TerrainSettings(seed, size) ==
    [seed              |-> seed,
     chunk_size        |-> size,
     view_distance     |-> 3,
     height_scale      |-> 15 * FP,
     noise_scale       |-> 10,
     octaves           |-> 4,
     persistence       |-> 500,
     lacunarity        |-> 2 * FP,
     water_level       |-> -2 * FP,
     feature_density   |-> 10,
     detail_mesh_size  |-> 2 * FP,
     generate_features |-> TRUE]

\* a world length (fixed-point) in model coordinates
ToCoord(v) == (v * WU) \div FP
\* a model coordinate as a fixed-point world coordinate
ToWorld(c) == (c * FP) \div WU

(***************************************************************************)
(* calculate_terrain_height: the value computed on a cache miss            *)
(***************************************************************************)
\* number of noise2d evaluations of one cache miss: fbm's octaves, large, medium
NoiseCallsPerMiss(ts) == Max(ts.octaves, 0) + 2

\* lines 206-224: base height, large scale and medium scale features at the
\* noise coordinates (nx, ny), scaled by height_scale
ScaledHeight(ts, ng, nx, ny) ==
    Mul(Fbm(ng, nx, ny, ts.octaves, ts.persistence, ts.lacunarity)
          + Mul(Noise2d(ng, Mul(nx, 200), Mul(ny, 200)), 300)
          + Mul(Noise2d(ng, Mul(nx, 2 * FP), Mul(ny, 2 * FP)), 150),
        ts.height_scale)

\* lines 201-224: the height at model coordinates (x, y)
CalcHeight(ts, ng, x, y) ==
    ScaledHeight(ts, ng, Mul(ToWorld(x), ts.noise_scale), Mul(ToWorld(y), ts.noise_scale))

(***************************************************************************)
(* The modelled run: one generator, built from ModelSeed, and a player     *)
(* whose position is drawn from Positions.                                 *)
(***************************************************************************)
\* the player reaches the chunks -1 .. MaxChunk along x
MaxChunk == 1

TheSettings == TerrainSettings(ModelSeed, ModelChunkSize)
TheNoiseGen == NoiseGeneratorInit(ModelSeed).gen

\* one chunk side in model coordinates
ChunkSpan(cs) == cs * WU

\* player positions (model coordinates): the first and the last position of
\* the chunks 0..MaxChunk of the row y = 0, shifted half a world unit down, so
\* that the first one lies below zero
Positions ==
    {<<c * ChunkSpan(TheSettings.chunk_size) + o, 8>> : c \in 0..MaxChunk, o \in {-1, 0}}

\* the world units (per axis) every chunk in view of those positions lies in
GridXs == ((-1 - TheSettings.view_distance) * TheSettings.chunk_size - 3)
          .. ((MaxChunk + 1 + TheSettings.view_distance) * TheSettings.chunk_size + 3)
GridYs == ((-TheSettings.view_distance) * TheSettings.chunk_size - 3)
          .. ((1 + TheSettings.view_distance) * TheSettings.chunk_size + 3)

\* CalcHeight of the modelled generator, tabulated once over the mesh points of
\* that region (corners lie on even, colour samples on odd world units)
HeightMemo ==
    [a \in GridXs |-> [b \in GridYs |->
        IF (a + b) % 2 = 0 THEN CalcHeight(TheSettings, TheNoiseGen, a * WU, b * WU)
        ELSE 0]]

\* CalcHeight, read from the table where the table holds it
HeightAt(ts, ng, x, y) ==
    IF /\ x % WU = 0 /\ y % WU = 0
       /\ (x \div WU) \in GridXs /\ (y \div WU) \in GridYs
       /\ ((x \div WU) + (y \div WU)) % 2 = 0
       /\ ts = TheSettings /\ ng.seed = TheNoiseGen.seed
    THEN HeightMemo[x \div WU][y \div WU]
    ELSE CalcHeight(ts, ng, x, y)

(***************************************************************************)
(* height_cache                                                            *)
(***************************************************************************)
\* a cache that holds the keys of the last calls only
CacheReplace(cache, ts, ng, keys) ==
    [k \in keys |-> HeightAt(ts, ng, k[1], k[2])]

\* the cache after calculate_terrain_height has been called for every key of
\* keys: a key already cached keeps its entry (line 198), a missing key gets
\* the computed height (line 227).  The result does not depend on the order
\* of the calls.
CacheFill(cache, ts, ng, keys) ==
    cache @@ [k \in keys \ DOMAIN cache |-> HeightAt(ts, ng, k[1], k[2])]

\* the noise2d evaluations of calls that evaluate noise for every key
CacheNoiseAll(cache, ts, keys) == Cardinality(keys) * NoiseCallsPerMiss(ts)

\* the noise2d evaluations of those calls: only the misses evaluate noise
CacheFillNoise(cache, ts, keys) ==
    Cardinality(keys \ DOMAIN cache) * NoiseCallsPerMiss(ts)

\* the value calculate_terrain_height(x, y) returns
CacheRead(cache, ts, ng, x, y) ==
    IF <<x, y>> \in DOMAIN cache THEN cache[<<x, y>>] ELSE HeightAt(ts, ng, x, y)

(***************************************************************************)
(* create_terrain_chunk: the mesh grid of one chunk                        *)
(***************************************************************************)
\* mesh_size in model coordinates
MeshStep(ts) == ToCoord(ts.detail_mesh_size)
\* mesh_segments = int(chunk_size / mesh_size); int() rounds towards zero
MeshSegments(ts, cs) ==
    IF cs >= 0 THEN (cs * FP) \div ts.detail_mesh_size
    ELSE -(((-cs) * FP) \div ts.detail_mesh_size)
\* the cells (i, j) of the grid
Cells(ts, cs) == (0..(MeshSegments(ts, cs) - 1)) \X (0..(MeshSegments(ts, cs) - 1))
\* the place of cell (i, j) in the two loops of lines 309-310, from 1
CellIndex(ts, cs, cell) == cell[1] * MeshSegments(ts, cs) + cell[2] + 1
\* (x_pos, y_pos) of a cell, lines 299-313
CellOrigin(ts, cs, cx, cy, cell) ==
    <<cx * ChunkSpan(cs) + cell[1] * MeshStep(ts), cy * ChunkSpan(cs) + cell[2] * MeshStep(ts)>>
\* the four corners whose height lines 316-319 ask for
CellCorners(o, m) == {o, <<o[1] + m, o[2]>>, <<o[1] + m, o[2] + m>>, <<o[1], o[2] + m>>}
\* a skip that one corner deep under water is enough for
CellSkippedByAny(ts, ng, o, m) ==
    \E k \in CellCorners(o, m) : HeightAt(ts, ng, k[1], k[2]) < ts.water_level - FP
\* line 326: all corners deep under water (a cached height is the computed height)
CellSkipped(ts, ng, o, m) ==
    \A k \in CellCorners(o, m) : HeightAt(ts, ng, k[1], k[2]) < ts.water_level - FP
\* the four heights get_terrain_color samples around the cell's centre, lines 234-238
ColourSamples(o, m) ==
    LET ax == o[1] + m \div 2
        ay == o[2] + m \div 2
        d  == 2 * WU
    IN  {<<ax + d, ay>>, <<ax - d, ay>>, <<ax, ay + d>>, <<ax, ay - d>>}

\* the heights asked for while the cells of done are processed and those of
\* segs get a segment: four corners per cell, four colour samples per segment
HeightKeys(ts, cs, cx, cy, done, segs) ==
    UNION {CellCorners(CellOrigin(ts, cs, cx, cy, c), MeshStep(ts)) : c \in done}
    \cup UNION {ColourSamples(CellOrigin(ts, cs, cx, cy, c), MeshStep(ts)) : c \in segs}

\* the cells of chunk (cx, cy) that are not skipped
MeshedCells(ts, ng, cs, cx, cy) ==
    {c \in Cells(ts, cs) : ~CellSkipped(ts, ng, CellOrigin(ts, cs, cx, cy, c), MeshStep(ts))}

\* a plan: the cells meshed and the heights asked for
PlanFor(ts, cs, cx, cy, meshed) ==
    [meshed |-> meshed, keys |-> HeightKeys(ts, cs, cx, cy, Cells(ts, cs), meshed)]

\* What building chunk (cx, cy) does when the engine builds every segment:
\* the cells that get a segment and the heights asked for.
ChunkPlan(ts, ng, cs, cx, cy) == PlanFor(ts, cs, cx, cy, MeshedCells(ts, ng, cs, cx, cy))

\* the chunks in view of the modelled positions
PlanXs == (-1 - TheSettings.view_distance) .. (MaxChunk + TheSettings.view_distance)
PlanYs == (-TheSettings.view_distance) .. TheSettings.view_distance

\* ChunkPlan of the modelled generator, tabulated once
PlanMemo ==
    [cx \in PlanXs |-> [cy \in PlanYs |->
        ChunkPlan(TheSettings, TheNoiseGen, TheSettings.chunk_size, cx, cy)]]

PlanOf(ts, ng, cs, cx, cy) ==
    IF /\ cx \in PlanXs /\ cy \in PlanYs
       /\ ts = TheSettings /\ ng.seed = TheNoiseGen.seed /\ cs = TheSettings.chunk_size
    THEN PlanMemo[cx][cy]
    ELSE ChunkPlan(ts, ng, cs, cx, cy)

(***************************************************************************)
(* The engine.  create_terrain_segment builds geometry through the engine  *)
(* (lines 355-397).  A fault names one cell of one chunk whose geometry    *)
(* the engine fails to build during the call: kind "none" is a failure     *)
(* the code tests for (no plane, no geoms, too few vertices: the segment   *)
(* is None), kind "raise" is an error raised by the engine call.           *)
(***************************************************************************)
NoFault == [kind |-> "ok"]

\* the cells the two loops reach: all of them, or those up to the cell an
\* error is raised for
CellsReached(ts, cs, fault) ==
    IF fault.kind = "raise"
    THEN {c \in Cells(ts, cs) : CellIndex(ts, cs, c) <= CellIndex(ts, cs, fault.cell)}
    ELSE Cells(ts, cs)

\* the build of a chunk whose cell fault.cell fails: done the cells reached
FaultyBuild(ts, cs, cx, cy, fault, plan, done) ==
    [segments |-> (plan.meshed \cap done) \ {fault.cell},
     keys     |-> HeightKeys(ts, cs, cx, cy, done, (plan.meshed \cap done) \ {fault.cell}),
     raised   |-> fault.kind = "raise",
     hit      |-> {fault.cell}]

\* the build of a chunk whose plan (with a faultless engine) is plan
PlanBuild(ts, cs, cx, cy, fault, plan) ==
    IF fault # NoFault /\ fault.chunk = <<cx, cy>> /\ fault.cell \in plan.meshed
    THEN FaultyBuild(ts, cs, cx, cy, fault, plan, CellsReached(ts, cs, fault))
    ELSE [segments |-> plan.meshed, keys |-> plan.keys, raised |-> FALSE, hit |-> {}]

\* What create_terrain_chunk(cx, cy) does for a chunk that is not loaded:
\* segments: the cells whose segment is attached to the chunk root;
\* keys: the heights asked for; raised: an error left the call at the fault;
\* hit: the cells create_terrain_segment failed for.
ChunkBuild(ts, ng, cs, cx, cy, fault) ==
    PlanBuild(ts, cs, cx, cy, fault, PlanOf(ts, ng, cs, cx, cy))

(***************************************************************************)
(* generate_chunk_features                                                 *)
(***************************************************************************)
\* expected_features = int(chunk_size * chunk_size * density)
ExpectedFeatures(ts, cs) == (cs * cs * ts.feature_density) \div FP

\* center_dist > view_distance - 1, with center_dist = sqrt(cx^2 + cy^2)
FarFromOrigin(vd, cx, cy) == vd - 1 < 0 \/ cx * cx + cy * cy > (vd - 1) * (vd - 1)
\* center_dist < view_distance - 1
NearOrigin(vd, cx, cy) == vd - 1 > 0 /\ cx * cx + cy * cy < (vd - 1) * (vd - 1)

\* random.uniform(0, chunk_size) drawn in generator state s, in model
\* coordinates: 0 + (chunk_size - 0) * random(), on the side of chunk_size
Uniform(s, span) ==
    IF span > 0 THEN s % span ELSE IF span < 0 THEN -(s % (-span)) ELSE 0

\* sample_dist = 0.5 in model coordinates
SampleDist == WU \div 2

\* the two filters of lines 461-478 for a candidate at (x, y): h its height, sx
\* and sy the slopes (h_px - h_nx, h_py - h_ny over 2 * sample_dist = 1), rng
\* the generator's state after the draws
Filtered(ts, x, y, rng, h, sx, sy) ==
    [pos      |-> <<x, y>>,
     rng      |-> rng,
     keys     |-> IF h > ts.water_level
                  THEN {<<x, y>>, <<x + SampleDist, y>>, <<x - SampleDist, y>>,
                        <<x, y + SampleDist>>, <<x, y - SampleDist>>}
                  ELSE {<<x, y>>},
     accepted |-> h > ts.water_level /\ sx * sx + sy * sy <= 700 * 700]

\* the heights of lines 458-472 for a candidate at (x, y)
Sampled(ts, ng, x, y, rng) ==
    Filtered(ts, x, y, rng, HeightAt(ts, ng, x, y),
             HeightAt(ts, ng, x + SampleDist, y) - HeightAt(ts, ng, x - SampleDist, y),
             HeightAt(ts, ng, x, y + SampleDist) - HeightAt(ts, ng, x, y - SampleDist))

\* One candidate of the loop of lines 449-478, drawn in generator state s:
\* its position, the heights asked for, whether it passes both filters.
Candidate(ts, ng, cs, cx, cy, s) ==
    Sampled(ts, ng,
            cx * ChunkSpan(cs) + Uniform(RandomNext(s), ChunkSpan(cs)),
            cy * ChunkSpan(cs) + Uniform(RandomNext(RandomNext(s)), ChunkSpan(cs)),
            RandomNext(RandomNext(s)))

\* the result so far with candidate c added
Scattered(acc, c) ==
    [acc EXCEPT !.rng = c.rng,
                !.keys = @ \cup c.keys,
                !.candidates = Append(@, c.pos),
                !.accepted = IF c.accepted THEN Append(@, c.pos) ELSE @]

\* the loop: n candidates left, acc the result so far
RECURSIVE ScatterLoop(_, _, _, _, _, _, _)
ScatterLoop(ts, ng, cs, cx, cy, n, acc) ==
    IF n <= 0 THEN acc
    ELSE ScatterLoop(ts, ng, cs, cx, cy, n - 1,
                     Scattered(acc, Candidate(ts, ng, cs, cx, cy, acc.rng)))

\* what a scatter f that ran for chunk key drew and accepted
ScatterOf(key, f) == [chunk |-> key, candidates |-> f.candidates, accepted |-> f.accepted]

\* a scatter that did not run
NoFeatures(rng) ==
    [ran |-> FALSE, rng |-> rng, keys |-> {}, candidates |-> <<>>, accepted |-> <<>>]

\* a feature seed without the factor 1000
FeatureSeedSum(ts, cx, cy) == ts.seed + cx + cy

\* feature_seed of line 441
FeatureSeed(ts, cx, cy) == ts.seed + cx * 1000 + cy

\* a scatter that draws from the random module as it finds it
FeatureNotSeeded(ts, cx, cy, rng) == rng

\* lines 441-442: random.seed(feature_seed) in generator state rng
FeatureSeeded(ts, cx, cy, rng) == RandomSeed(FeatureSeed(ts, cx, cy))

\* generate_chunk_features(chunk_root, cx, cy) called with the random module in
\* state rng: whether it ran (line 434), the state it leaves the random module
\* in, the heights asked for, the candidates drawn and those accepted
ChunkFeatures(ts, ng, cs, vd, cx, cy, rng) ==
    IF FarFromOrigin(vd, cx, cy)
    THEN NoFeatures(rng)
    ELSE ScatterLoop(ts, ng, cs, cx, cy, ExpectedFeatures(ts, cs),
             [ran |-> TRUE, rng |-> FeatureSeeded(ts, cx, cy, rng),
              keys |-> {}, candidates |-> <<>>, accepted |-> <<>>])

\* ChunkFeatures of the modelled generator for the chunks around the origin,
\* tabulated once (a scatter that runs reseeds: its result does not depend on
\* the state it is called in)
FeatureXs == (-TheSettings.view_distance) .. TheSettings.view_distance

FeatureMemo ==
    [cx \in FeatureXs |-> [cy \in FeatureXs |->
        ChunkFeatures(TheSettings, TheNoiseGen, TheSettings.chunk_size,
                      TheSettings.view_distance, cx, cy, 0)]]

FeaturesOf(ts, ng, cs, vd, cx, cy, rng) ==
    IF /\ cx \in FeatureXs /\ cy \in FeatureXs /\ ~FarFromOrigin(vd, cx, cy)
       /\ FeatureSeeded(ts, cx, cy, rng) = FeatureSeeded(ts, cx, cy, 0)
       /\ ts = TheSettings /\ ng.seed = TheNoiseGen.seed
       /\ cs = TheSettings.chunk_size /\ vd = TheSettings.view_distance
    THEN FeatureMemo[cx][cy]
    ELSE ChunkFeatures(ts, ng, cs, vd, cx, cy, rng)

\* lines 343-348 of create_terrain_chunk: the scatter of a chunk just built
BuiltFeaturesOf(ts, ng, cs, vd, cx, cy, rng) ==
    IF ts.generate_features /\ NearOrigin(vd, cx, cy)
    THEN FeaturesOf(ts, ng, cs, vd, cx, cy, rng)
    ELSE NoFeatures(rng)

(***************************************************************************)
(* The state of a TerrainGenerator and of what it shares with the rest of  *)
(* the process.                                                            *)
(***************************************************************************)
VARIABLES
    terrain_settings,      \* self.terrain_settings
    noise_gen,             \* self.noise_gen
    chunk_size,            \* self.chunk_size
    view_distance,         \* self.view_distance
    height_scale,          \* self.height_scale
    loaded_chunks,         \* self.loaded_chunks: chunk key -> chunk root node
    current_center_chunk,  \* self.current_center_chunk
    height_cache,          \* self.height_cache: (x, y) -> height
    scene,                 \* the nodes attached under terrain_root -> the cells attached to each
    random_state,          \* the state of the process-wide random module
    call,                  \* what the last call did
    calls,                 \* the number of calls made so far
    scatter_log,           \* every scatter that ran so far: chunk, candidates, accepted
    game_active,           \* app.game_active
    game_paused,           \* app.game_paused
    player,                \* app.player: the number of the PlayerController, or NoPlayer
    environment_manager,   \* app.environment_manager: the number of the manager, or NoManager
    taskMgr,               \* the terrain update tasks registered with app.taskMgr
    frame                  \* the number of frames the task manager has run

config == <<terrain_settings, noise_gen, chunk_size, view_distance, height_scale>>
vars == <<terrain_settings, noise_gen, chunk_size, view_distance, height_scale,
          loaded_chunks, current_center_chunk, height_cache, scene, random_state, call,
          calls, scatter_log, game_active, game_paused, player, environment_manager,
          taskMgr, frame>>
\* the state of the application around the generator
app == <<game_active, game_paused, player, environment_manager, taskMgr, frame>>

\* app.environment_manager = None and app.player = None: managers and players
\* are numbered from 1
NoManager == 0
NoPlayer == 0

\* ReactiveApp.__init__: no game is running, no terrain task is registered
AppInit ==
    /\ game_active = FALSE
    /\ game_paused = FALSE
    /\ player = NoPlayer
    /\ environment_manager = NoManager
    /\ taskMgr = <<>>
    /\ frame = 0

EmptyMap == [k \in {} |-> 0]
Restrict(f, S) == [k \in S |-> f[k]]

\* the record of a call that did nothing yet
Call(op, arg) ==
    [op |-> op, arg |-> arg, ret |-> None, raised |-> FALSE, hit |-> {},
     built |-> <<>>, attached |-> {}, removed |-> {}, scattered |-> <<>>, noise |-> 0]

\* the visible set without the test on dist_sq: the whole square
VisibleSquare(c, vd) == ((c[1] - vd)..(c[1] + vd)) \X ((c[2] - vd)..(c[2] + vd))

\* the visible set with dist_sq < vd * vd
VisibleInside(c, vd) ==
    {k \in ((c[1] - vd)..(c[1] + vd)) \X ((c[2] - vd)..(c[2] + vd)) :
        (k[1] - c[1]) * (k[1] - c[1]) + (k[2] - c[2]) * (k[2] - c[2]) < vd * vd}

\* range(cx - vd, cx + vd + 1) twice and the test dist_sq <= vd * vd, lines 495-501
VisibleChunks(c, vd) ==
    {k \in ((c[1] - vd)..(c[1] + vd)) \X ((c[2] - vd)..(c[2] + vd)) :
        (k[1] - c[1]) * (k[1] - c[1]) + (k[2] - c[2]) * (k[2] - c[2]) <= vd * vd}

\* (dist_sq, x, y) of line 519
DistSq(k, c) == (k[1] - c[1]) * (k[1] - c[1]) + (k[2] - c[2]) * (k[2] - c[2])
\* the order of the tuples without dist_sq: (x, y)
CoordLess(a, b, c) == a[1] < b[1] \/ (a[1] = b[1] /\ a[2] < b[2])

\* the order of Python tuples (dist_sq, x, y)
DistLess(a, b, c) ==
    \/ DistSq(a, c) < DistSq(b, c)
    \/ DistSq(a, c) = DistSq(b, c) /\ a[1] < b[1]
    \/ DistSq(a, c) = DistSq(b, c) /\ a[1] = b[1] /\ a[2] < b[2]
\* chunk_distances.sort(), line 521
SortByDistance(S, c) ==
    [n \in 1..Cardinality(S) |->
        CHOOSE a \in S : Cardinality({b \in S : DistLess(b, a, c)}) = n - 1]
\* the circle around chunk (0, 0) of the modelled generator, sorted once
CircleOrder == SortByDistance(VisibleChunks(<<0, 0>>, TheSettings.view_distance), <<0, 0>>)
\* lines 514-521: the chunks of S, all in view of c, in the order of the sort
\* (moving the circle to c keeps the order of the tuples)
MissingByDistance(S, c, vd) ==
    IF vd = TheSettings.view_distance
    THEN SelectSeq([n \in 1..Len(CircleOrder) |->
                      <<CircleOrder[n][1] + c[1], CircleOrder[n][2] + c[2]>>],
                   LAMBDA k : k \in S)
    ELSE SortByDistance(S, c)

\* the fallback grid without the test on dist_sq: the whole square
FallbackSquare(vd) ==
    [n \in 1..((2 * vd + 1) * (2 * vd + 1)) |->
        <<((n - 1) \div (2 * vd + 1)) - vd, ((n - 1) % (2 * vd + 1)) - vd>>]

\* the chunks create_terrain_chunk is called for by the two loops of lines
\* 530-535, in the order of the loops
FallbackOrder(vd) ==
    SelectSeq([n \in 1..((2 * vd + 1) * (2 * vd + 1)) |->
                  <<((n - 1) \div (2 * vd + 1)) - vd, ((n - 1) % (2 * vd + 1)) - vd>>],
              LAMBDA k : k[1] * k[1] + k[2] * k[2] <= vd * vd)

\* terrain_root.attachNewNode("chunk_x_y"): a node that is none of the nodes attached
NewNode(scn, key) ==
    LET used == {nd.n : nd \in {d \in DOMAIN scn : d.chunk = key}}
    IN  [chunk |-> key,
         n     |-> CHOOSE k \in 0..Cardinality(used) :
                       k \notin used /\ \A j \in 0..(k - 1) : j \in used]

\* the state a loop of builds starts from
BuildStart(loaded, scn, rng) ==
    [loaded |-> loaded, scene |-> scn, rng |-> rng, keys |-> {}, ret |-> None,
     raised |-> FALSE, hit |-> {}, built |-> <<>>, attached |-> {}, scattered |-> <<>>]

\* create_terrain_chunk for a chunk that is not loaded, lines 295-350: node is
\* the chunk root attached, b what the two loops do, f what the scatter does
ChunkCreated(acc, key, node, b, f) ==
    [loaded    |-> IF b.raised THEN acc.loaded ELSE acc.loaded @@ [k \in {key} |-> node],
     scene     |-> acc.scene @@ [nd \in {node} |-> b.segments],
     rng       |-> IF b.raised THEN acc.rng ELSE f.rng,
     keys      |-> IF b.raised THEN acc.keys \cup b.keys ELSE acc.keys \cup b.keys \cup f.keys,
     ret       |-> IF b.raised THEN None ELSE node,
     raised    |-> b.raised,
     hit       |-> acc.hit \cup {[chunk |-> key, cell |-> c] : c \in b.hit},
     built     |-> Append(acc.built, key),
     attached  |-> acc.attached \cup {node},
     scattered |-> IF ~b.raised /\ f.ran
                   THEN Append(acc.scattered, ScatterOf(key, f))
                   ELSE acc.scattered]

\* a build that never finds the chunk loaded
ChunkNeverLoaded(loaded, key) == FALSE

\* chunk_key in self.loaded_chunks, line 291
ChunkLoaded(loaded, key) == key \in DOMAIN loaded

\* create_terrain_chunk(cx, cy), lines 288-350
CreateChunk(ts, ng, cs, vd, key, fault, acc) ==
    IF ChunkLoaded(acc.loaded, key)
    THEN [acc EXCEPT !.ret = acc.loaded[key]]
    ELSE ChunkCreated(acc, key, NewNode(acc.scene, key),
                      ChunkBuild(ts, ng, cs, key[1], key[2], fault),
                      BuiltFeaturesOf(ts, ng, cs, vd, key[1], key[2], acc.rng))

\* create_terrain_chunk called for the chunks of order from the n-th on (the
\* loops of lines 523-524 and 530-535); an error raised by a call ends the loop
RECURSIVE BuildChunks(_, _, _, _, _, _, _, _)
BuildChunks(ts, ng, cs, vd, order, n, fault, acc) ==
    IF n > Len(order) \/ acc.raised THEN acc
    ELSE BuildChunks(ts, ng, cs, vd, order, n + 1, fault,
                     CreateChunk(ts, ng, cs, vd, order[n], fault, acc))

\* the call record of a call that built chunks
BuildCall(op, arg, removed, cache, ts, b) ==
    [op |-> op, arg |-> arg, ret |-> b.ret, raised |-> b.raised, hit |-> b.hit,
     built |-> b.built, attached |-> b.attached, removed |-> removed,
     scattered |-> b.scattered, noise |-> CacheFillNoise(cache, ts, b.keys)]

(***************************************************************************)
(* Construction: TerrainGenerator.__init__ with the settings of the model  *)
(***************************************************************************)
Init ==
    /\ terrain_settings = TheSettings
    /\ noise_gen = TheNoiseGen
    /\ chunk_size = TheSettings.chunk_size
    /\ view_distance = TheSettings.view_distance
    /\ height_scale = TheSettings.height_scale
    /\ loaded_chunks = EmptyMap
    /\ current_center_chunk = None
    /\ height_cache = EmptyMap
    /\ scene = EmptyMap
    /\ random_state = NoiseGeneratorInit(ModelSeed).rng
    /\ call = Call("__init__", None)
    /\ calls = 0
    /\ scatter_log = {}
    /\ AppInit

\* the chunk_size values a terrain_generation section may give: a valid one,
\* zero and a negative one
ConfigChunkSizes == {ModelChunkSize, 0, -ModelChunkSize}

\* Construction with any of those: _get_terrain_settings copies every key of
\* the section over the defaults (lines 167-169) and __init__ reads chunk_size
\* from the result (line 136); neither tests the value
InitConfig ==
    \E size \in ConfigChunkSizes :
        /\ terrain_settings = TerrainSettings(ModelSeed, size)
        /\ noise_gen = TheNoiseGen
        /\ chunk_size = size
        /\ view_distance = TerrainSettings(ModelSeed, size).view_distance
        /\ height_scale = TerrainSettings(ModelSeed, size).height_scale
        /\ loaded_chunks = EmptyMap
        /\ current_center_chunk = None
        /\ height_cache = EmptyMap
        /\ scene = EmptyMap
        /\ random_state = NoiseGeneratorInit(ModelSeed).rng
        /\ call = Call("__init__", None)
        /\ calls = 0
        /\ scatter_log = {}
        /\ AppInit

\* the inputs of the model
Faults ==
    {NoFault, [kind |-> "none", chunk |-> <<0, 0>>, cell |-> <<0, 0>>]}
RaiseFaults ==
    {[kind |-> "raise", chunk |-> <<0, 0>>, cell |-> <<2, 3>>]}

\* the quotient rounded toward zero, as int(a / b) would
TruncDiv(a, b) ==
    IF b > 0 THEN (IF a >= 0 THEN a \div b ELSE -((-a) \div b))
    ELSE (IF a >= 0 THEN -(a \div (-b)) ELSE (-a) \div (-b))

\* math.floor(a / b) for b # 0: the floor of the quotient, whatever the signs
FloorDiv(a, b) == IF b > 0 THEN a \div b ELSE (-a) \div (-b)

\* int(math.floor(position.x / chunk_size)) and the same for y, lines 485-486
ChunkOf(pos, cs) == <<FloorDiv(pos[1], ChunkSpan(cs)), FloorDiv(pos[2], ChunkSpan(cs))>>

\* an update that never takes the centre for unchanged
CenterAlwaysChanged(current, centre) == FALSE

\* self.current_center_chunk == (chunk_x, chunk_y), line 489
CenterUnchanged(current, centre) == current = centre

\* an update that unloads every loaded chunk
UnloadAll(loaded, visible) == DOMAIN loaded

\* chunks_to_unload, lines 504-507
ChunksToUnload(loaded, visible) == DOMAIN loaded \ visible

\* an update that reads position.x of no position: None has no x
NoPositionRaises == [Call("update_visible_chunks", None) EXCEPT !.raised = TRUE]

\* the early return of lines 481-482: the call did nothing
NoPosition == Call("update_visible_chunks", None)

\* update_visible_chunks(position), lines 480-524
UpdateVisibleChunks(pos, fault) ==
    IF pos = None
    THEN /\ call' = NoPosition
         /\ UNCHANGED <<config, loaded_chunks, current_center_chunk, height_cache,
                        scene, random_state>>
    ELSE IF chunk_size = 0
    THEN \* position.x / 0 raises ZeroDivisionError at line 485
         /\ call' = [Call("update_visible_chunks", pos) EXCEPT !.raised = TRUE]
         /\ UNCHANGED <<config, loaded_chunks, current_center_chunk, height_cache,
                        scene, random_state>>
    ELSE LET centre == ChunkOf(pos, chunk_size)
         IN  IF CenterUnchanged(current_center_chunk, centre)
             THEN /\ call' = Call("update_visible_chunks", pos)
                  /\ UNCHANGED <<config, loaded_chunks, current_center_chunk, height_cache,
                                 scene, random_state>>
             ELSE LET visible == VisibleChunks(centre, view_distance)
                      unload  == ChunksToUnload(loaded_chunks, visible)
                      removed == {loaded_chunks[k] : k \in unload} \cap DOMAIN scene
                      kept    == Restrict(loaded_chunks, DOMAIN loaded_chunks \ unload)
                      scn     == Restrict(scene, DOMAIN scene \ removed)
                      order   == MissingByDistance(visible \ DOMAIN kept, centre, view_distance)
                  IN  \E b \in {BuildChunks(terrain_settings, noise_gen, chunk_size,
                                            view_distance, order, 1, fault,
                                            BuildStart(kept, scn, random_state))} :
                        /\ current_center_chunk' = centre
                        /\ loaded_chunks' = b.loaded
                        /\ scene' = b.scene
                        /\ height_cache' = CacheFill(height_cache, terrain_settings,
                                                     noise_gen, b.keys)
                        /\ random_state' = b.rng
                        /\ call' = [BuildCall("update_visible_chunks", pos, removed,
                                              height_cache, terrain_settings, b)
                                      EXCEPT !.ret = None]
                        /\ UNCHANGED config

\* create_terrain_chunk(cx, cy) called from outside, lines 288-350
CreateTerrainChunk(key, fault) ==
    \E b \in {CreateChunk(terrain_settings, noise_gen, chunk_size, view_distance, key, fault,
                          BuildStart(loaded_chunks, scene, random_state))} :
        /\ loaded_chunks' = b.loaded
        /\ scene' = b.scene
        /\ height_cache' = CacheFill(height_cache, terrain_settings, noise_gen, b.keys)
        /\ random_state' = b.rng
        /\ call' = BuildCall("create_terrain_chunk", key, {}, height_cache,
                             terrain_settings, b)
        /\ UNCHANGED <<config, current_center_chunk>>

\* calculate_terrain_height(x, y) called from outside, lines 194-228
CalculateTerrainHeight(x, y) ==
    /\ height_cache' = CacheFill(height_cache, terrain_settings, noise_gen, {<<x, y>>})
    /\ call' = [Call("calculate_terrain_height", <<x, y>>) EXCEPT
                  !.ret = CacheRead(height_cache, terrain_settings, noise_gen, x, y),
                  !.noise = CacheFillNoise(height_cache, terrain_settings, {<<x, y>>})]
    /\ UNCHANGED <<config, loaded_chunks, current_center_chunk, scene, random_state>>

\* generate_chunk_features(chunk_root, cx, cy) called from outside, lines 430-478
GenerateChunkFeatures(key) ==
    \E f \in {FeaturesOf(terrain_settings, noise_gen, chunk_size, view_distance,
                         key[1], key[2], random_state)} :
        /\ random_state' = f.rng
        /\ height_cache' = CacheFill(height_cache, terrain_settings, noise_gen, f.keys)
        /\ call' = [Call("generate_chunk_features", key) EXCEPT
                      !.scattered = IF f.ran THEN <<ScatterOf(key, f)>>
                                    ELSE <<>>,
                      !.noise = CacheFillNoise(height_cache, terrain_settings, f.keys)]
        /\ UNCHANGED <<config, loaded_chunks, current_center_chunk, scene>>

\* generate_terrain_and_features(), lines 526-542
GenerateTerrainAndFeatures(fault) ==
    IF current_center_chunk # None
    THEN /\ call' = Call("generate_terrain_and_features", None)
         /\ UNCHANGED <<config, loaded_chunks, current_center_chunk, height_cache,
                        scene, random_state>>
    ELSE \E b \in {BuildChunks(terrain_settings, noise_gen, chunk_size, view_distance,
                               FallbackOrder(view_distance), 1, fault,
                               BuildStart(loaded_chunks, scene, random_state))} :
            /\ current_center_chunk' = IF b.raised THEN current_center_chunk ELSE <<0, 0>>
            /\ loaded_chunks' = b.loaded
            /\ scene' = b.scene
            /\ height_cache' = CacheFill(height_cache, terrain_settings, noise_gen, b.keys)
            /\ random_state' = b.rng
            /\ call' = [BuildCall("generate_terrain_and_features", None, {}, height_cache,
                                  terrain_settings, b)
                          EXCEPT !.ret = None]
            /\ UNCHANGED config

\* a cleanup that also forgets the view distance
CleanupResetsConfig ==
    /\ loaded_chunks' = EmptyMap
    /\ scene' = Restrict(scene, DOMAIN scene \ {loaded_chunks[k] : k \in DOMAIN loaded_chunks})
    /\ height_cache' = EmptyMap
    /\ call' = [Call("cleanup", None) EXCEPT
                  !.removed = {loaded_chunks[k] : k \in DOMAIN loaded_chunks} \cap DOMAIN scene]
    /\ view_distance' = 0
    /\ UNCHANGED <<terrain_settings, noise_gen, chunk_size, height_scale,
                   current_center_chunk, random_state>>

\* cleanup(), lines 544-571
Cleanup ==
    /\ loaded_chunks' = EmptyMap
    /\ scene' = Restrict(scene, DOMAIN scene \ {loaded_chunks[k] : k \in DOMAIN loaded_chunks})
    /\ height_cache' = EmptyMap
    /\ call' = [Call("cleanup", None) EXCEPT
                  !.removed = {loaded_chunks[k] : k \in DOMAIN loaded_chunks} \cap DOMAIN scene]
    /\ UNCHANGED <<config, current_center_chunk, random_state>>

\* the chunks, points and scatters asked for from outside
DirectChunks == {<<0, 0>>, <<MaxChunk + 3, 0>>}
QueryPoints == {<<0, 0>>, <<3, 5>>}
FeatureChunks == {<<0, 1>>, <<2, 0>>, <<2, 1>>}

\* the longest run of calls the model follows
MaxCalls == 3
\* one more call
Called == calls < MaxCalls /\ calls' = calls + 1
\* the scatters of the call are added to the log
Logged == scatter_log' = scatter_log \cup {call'.scattered[i] : i \in 1..Len(call'.scattered)}

\* the calls the generator gets, with an engine that builds every segment or
\* returns none for one
UpdateStep ==
    /\ Called
    /\ \E pos \in Positions \cup {None}, fault \in Faults : UpdateVisibleChunks(pos, fault)
    /\ Logged
    /\ UNCHANGED app
CreateStep ==
    /\ Called
    /\ \E key \in DirectChunks, fault \in Faults : CreateTerrainChunk(key, fault)
    /\ Logged
    /\ UNCHANGED app
HeightStep ==
    /\ Called
    /\ \E q \in QueryPoints : CalculateTerrainHeight(q[1], q[2])
    /\ Logged
    /\ UNCHANGED app
FeatureStep ==
    /\ Called
    /\ \E key \in FeatureChunks : GenerateChunkFeatures(key)
    /\ Logged
    /\ UNCHANGED app
GenerateStep ==
    /\ Called
    /\ \E fault \in Faults : GenerateTerrainAndFeatures(fault)
    /\ Logged
    /\ UNCHANGED app
CleanupStep ==
    /\ Called
    /\ Cleanup
    /\ Logged
    /\ UNCHANGED app

\* update_visible_chunks alone
SpecUpdate == Init /\ [][UpdateStep]_vars

\* update_visible_chunks alone, on a generator built from any configuration
SpecConfig == InitConfig /\ [][UpdateStep]_vars

\* every operation of the generator
Next ==
    \/ UpdateStep
    \/ CreateStep
    \/ HeightStep
    \/ FeatureStep
    \/ GenerateStep
    \/ CleanupStep

Spec == Init /\ [][Next]_vars

\* the same calls with an engine that may also raise an error
UpdateAnyStep ==
    /\ Called
    /\ \E pos \in Positions, fault \in Faults \cup RaiseFaults : UpdateVisibleChunks(pos, fault)
    /\ Logged
    /\ UNCHANGED app
CreateAnyStep ==
    /\ Called
    /\ \E key \in DirectChunks, fault \in Faults \cup RaiseFaults : CreateTerrainChunk(key, fault)
    /\ Logged
    /\ UNCHANGED app

NextRaise ==
    \/ UpdateAnyStep
    \/ CreateAnyStep

SpecRaise == Init /\ [][NextRaise]_vars

(***************************************************************************)
(* NoiseGenerator called on its own: the methods of the generator's        *)
(* noise_gen, and the construction of another NoiseGenerator elsewhere in  *)
(* the process.                                                            *)
(***************************************************************************)
\* fbm is called with -1 .. MaxOctaves octaves
MaxOctaves == 8
OctaveCounts == -1..MaxOctaves

\* the points (fixed-point coordinates) the noise is asked for
NoisePoints == {-1500, 0, 250, 700, 3300} \X {-2250, 500, 1900}

\* the seeds another NoiseGenerator is built with
NoiseSeeds == {ModelSeed, ModelSeed + 1}

\* noise_gen.noise2d(x, y), lines 33-60
NoiseGenNoise2d(x, y) ==
    /\ call' = [Call("noise2d", <<x, y>>) EXCEPT !.ret = Noise2d(noise_gen, x, y)]
    /\ UNCHANGED <<config, loaded_chunks, current_center_chunk, height_cache, scene,
                   random_state>>

\* noise_gen.fbm(x, y, octaves, 0.5, 2.0), lines 62-80
NoiseGenFbm(x, y, octaves) ==
    /\ call' = [Call("fbm", <<x, y, octaves>>) EXCEPT
                  !.ret = Fbm(noise_gen, x, y, octaves, FP \div 2, 2 * FP)]
    /\ UNCHANGED <<config, loaded_chunks, current_center_chunk, height_cache, scene,
                   random_state>>

\* NoiseGenerator(seed) of the seeds of NoiseSeeds, tabulated once
GeneratorMemo == [seed \in NoiseSeeds |-> NoiseGeneratorInit(seed)]

\* a constructor that shuffles without seeding the random module
NotSeeded(seed, rng) == rng

\* random.seed(seed) of line 20, in generator state rng
Seeded(seed, rng) == RandomSeed(seed)

\* NoiseGenerator(seed) built while the random module is in state rng
NoiseGeneratorBuilt(seed, rng) ==
    IF seed \in NoiseSeeds /\ Seeded(seed, rng) = RandomSeed(seed)
    THEN GeneratorMemo[seed]
    ELSE NoiseGeneratorFrom(seed, Seeded(seed, rng))

\* NoiseGenerator(seed) built elsewhere in the process, lines 16-31: the new
\* generator is the call's result, the random module is left seeded and drawn from
OtherNoiseGenerator(seed) ==
    \E g \in {NoiseGeneratorBuilt(seed, random_state)} :
        /\ random_state' = g.rng
        /\ call' = [Call("NoiseGenerator", seed) EXCEPT !.ret = g.gen]
        /\ UNCHANGED <<config, loaded_chunks, current_center_chunk, height_cache, scene>>

\* one draw from the random module elsewhere in the process (the sky and the
\* structure generators draw from it)
RandomDraw ==
    /\ random_state' = RandomNext(random_state)
    /\ call' = Call("random", None)
    /\ UNCHANGED <<config, loaded_chunks, current_center_chunk, height_cache, scene>>

NoiseGeneratorStep ==
    /\ Called
    /\ \E seed \in NoiseSeeds : OtherNoiseGenerator(seed)
    /\ Logged
    /\ UNCHANGED app
RandomStep ==
    /\ Called
    /\ RandomDraw
    /\ Logged
    /\ UNCHANGED app

Noise2dStep ==
    /\ Called
    /\ \E p \in NoisePoints : NoiseGenNoise2d(p[1], p[2])
    /\ Logged
    /\ UNCHANGED app
FbmStep ==
    /\ Called
    /\ \E p \in NoisePoints, o \in OctaveCounts : NoiseGenFbm(p[1], p[2], o)
    /\ Logged
    /\ UNCHANGED app

NextNoise ==
    \/ Noise2dStep
    \/ FbmStep
    \/ NoiseGeneratorStep
    \/ HeightStep

SpecNoise == Init /\ [][NextNoise]_vars

\* the chunks the feature seed is computed for: those around the origin and
\* two far ones
SeedChunks == ((-2)..2) \X ((-2)..2) \cup {<<0, 1000>>, <<-1, 1000>>}
\* the base seeds it is computed from
SeedBases == {ModelSeed, 0, 3000}

\* feature_seed of line 441 for two chunks, with base seed base
FeatureSeeds(base, k1, k2) ==
    /\ call' = [Call("feature_seed", <<base, k1, k2>>) EXCEPT
                  !.ret = <<FeatureSeed([terrain_settings EXCEPT !.seed = base], k1[1], k1[2]),
                            FeatureSeed([terrain_settings EXCEPT !.seed = base], k2[1], k2[2])>>]
    /\ UNCHANGED <<config, loaded_chunks, current_center_chunk, height_cache, scene,
                   random_state>>

\* the seeds are computed in one call
SeedStep ==
    /\ calls = 0 /\ calls' = 1
    /\ \E base \in SeedBases, k1, k2 \in SeedChunks : FeatureSeeds(base, k1, k2)
    /\ Logged
    /\ UNCHANGED app

SpecSeed == Init /\ [][SeedStep]_vars

\* the integer cells noise2d is asked for: negative ones, ones beyond 255
LookupCells == {-257, -256, -1, 0, 1, 254, 255, 256, 1000}
               \X {-257, -256, -1, 0, 1, 254, 255, 256, 1000}

\* the table lookups of noise_gen.noise2d for a point of cell (cx, cy), and
\* those for the cells 256 further on each axis
NoiseGenLookups(cx, cy) ==
    \E here \in {CellLookups(noise_gen, cx, cy)} :
        /\ call' = [Call("noise2d lookups", <<cx, cy>>) EXCEPT
                      !.ret = [here      |-> here,
                               shifted_x |-> CellLookups(noise_gen, cx + 256, cy),
                               shifted_y |-> CellLookups(noise_gen, cx, cy + 256)],
                      !.raised = \E i \in 1..4 : here[i].raised]
        /\ UNCHANGED <<config, loaded_chunks, current_center_chunk, height_cache, scene,
                       random_state>>

LookupStep ==
    /\ Called
    /\ \E c \in LookupCells : NoiseGenLookups(c[1], c[2])
    /\ Logged
    /\ UNCHANGED app

SpecLookup == Init /\ [][LookupStep]_vars

\* the three operations the chunk streaming is driven by, in any order
NextStream ==
    \/ GenerateStep
    \/ UpdateStep
    \/ CleanupStep

SpecStream == Init /\ [][NextStream]_vars

\* the feature scatter, directly and by updates, among the other users of
\* the random module
NextScatter ==
    \/ FeatureStep
    \/ UpdateStep
    \/ NoiseGeneratorStep
    \/ RandomStep

SpecScatter == Init /\ [][NextScatter]_vars

(***************************************************************************)
(* The application: ReactiveApp starts and ends games, EnvironmentManager  *)
(* registers the terrain update task, the task manager runs it every       *)
(* frame it is due.  While a game runs the generator's variables are those *)
(* of its terrain generator; between games they have the values a new      *)
(* generator starts with.                                                  *)
(***************************************************************************)
\* the longest run of application events the model follows
MaxEvents == 5
\* one more event
Event == calls < MaxEvents /\ calls' = calls + 1

\* the frames a task added by taskMgr.add(function, name) sleeps when it
\* returns task.again: it was given no delayTime
TaskDelay == 0

\* where PlayerController puts the player of a new game
StartPositions == {<<0, 8>>, <<-1, 8>>}

\* a task that calls update_visible_chunks whatever the flags of the game
TaskUpdatesAlways(t, active, paused, env) == t.sleep = 0 /\ t.env = env

\* _update_terrain_chunks of task t gets past line 327 and calls
\* update_visible_chunks: the task is due, the game is active and not paused,
\* and the task's manager still has its static manager (it is the manager of
\* the running game)
TaskUpdates(t, active, paused, env) == t.sleep = 0 /\ active /\ ~paused /\ t.env = env

\* task t after frame number f: it sleeps on, returns task.again after an
\* update (due again after its delay), or returns task.cont (due next frame)
TaskAfterFrame(t, active, paused, env, f) ==
    IF t.sleep > 0 THEN [t EXCEPT !.sleep = @ - 1]
    ELSE IF TaskUpdates(t, active, paused, env)
    THEN [t EXCEPT !.sleep = TaskDelay, !.updated = f]
    ELSE t

\* set_player's update_visible_chunks on the generator the fallback grid g was
\* built for, the player standing in chunk centre # (0, 0), lines 492-524
MovedFrom(g, centre) ==
    LET visible == VisibleChunks(centre, view_distance)
        unload  == ChunksToUnload(g.loaded, visible)
        removed == {g.loaded[k] : k \in unload} \cap DOMAIN g.scene
        kept    == Restrict(g.loaded, DOMAIN g.loaded \ unload)
    IN  BuildChunks(terrain_settings, noise_gen, chunk_size, view_distance,
                    MissingByDistance(visible \ DOMAIN kept, centre, view_distance), 1,
                    NoFault,
                    [BuildStart(kept, Restrict(g.scene, DOMAIN g.scene \ removed), g.rng)
                        EXCEPT !.keys = g.keys, !.built = g.built,
                               !.scattered = g.scattered])

\* the generator of a new game: the fallback grid g of
\* generate_terrain_and_features, then set_player's update at chunk centre
GameGenerator(g, centre) ==
    IF centre = <<0, 0>> THEN g ELSE MovedFrom(g, centre)

\* the generator's variables after the game's generator b was built
GeneratorStarted(b, centre, pos) ==
    /\ loaded_chunks' = b.loaded
    /\ scene' = b.scene
    /\ height_cache' = CacheFill(EmptyMap, terrain_settings, noise_gen, b.keys)
    /\ random_state' = b.rng
    /\ current_center_chunk' = centre
    /\ call' = [Call("start_game", pos) EXCEPT !.built = b.built, !.scattered = b.scattered]

\* start_game(), app.py lines 77-105: the running game is cleaned up (which
\* removes no terrain task), a new EnvironmentManager builds its terrain
\* generator and the fallback grid and registers its task with
\* taskMgr.add(self._update_terrain_chunks, "update_terrain_chunks_task"), due
\* in the next frame; the player is created and set_player updates the
\* visible chunks at its position.  The manager and the player get the next
\* number, one more than the tasks registered so far.
StartGame(pos) ==
    /\ GeneratorStarted(
           GameGenerator(
               BuildChunks(terrain_settings, noise_gen, chunk_size, view_distance,
                           FallbackOrder(view_distance), 1, NoFault,
                           BuildStart(EmptyMap, EmptyMap, NoiseGeneratorInit(noise_gen.seed).rng)),
               ChunkOf(pos, chunk_size)),
           ChunkOf(pos, chunk_size), pos)
    /\ taskMgr' = Append(taskMgr, [env |-> Len(taskMgr) + 1, sleep |-> 0, updated |-> 0])
    /\ environment_manager' = Len(taskMgr) + 1
    /\ player' = Len(taskMgr) + 1
    /\ game_active' = TRUE
    /\ game_paused' = FALSE
    /\ UNCHANGED <<config, frame>>

\* cleanup_game_session(), app.py lines 107-129: the player and the manager
\* are destroyed and the generator is dropped with them; neither
\* cleanup_game_session nor EnvironmentManager.cleanup() removes the terrain
\* task from the task manager
CleanupGameSession ==
    /\ loaded_chunks' = EmptyMap
    /\ scene' = EmptyMap
    /\ height_cache' = EmptyMap
    /\ current_center_chunk' = None
    /\ UNCHANGED <<random_state, taskMgr>>
    /\ player' = NoPlayer
    /\ environment_manager' = NoManager
    /\ game_active' = FALSE
    /\ game_paused' = FALSE
    /\ call' = Call("cleanup_game_session", None)
    /\ UNCHANGED <<config, frame>>

\* a pause that does not look at the flags
PauseAlways == TRUE

\* pause_game() gets past line 132
PauseAllowed == game_active /\ ~game_paused

\* pause_game(), app.py lines 131-137
PauseGame ==
    /\ game_paused' = IF PauseAllowed THEN TRUE ELSE game_paused
    /\ call' = Call("pause_game", None)
    /\ UNCHANGED <<config, loaded_chunks, current_center_chunk, height_cache, scene,
                   random_state, game_active, player, environment_manager, taskMgr, frame>>

\* resume_game(), app.py lines 139-151
ResumeGame ==
    /\ game_paused' = IF game_active /\ game_paused THEN FALSE ELSE game_paused
    /\ call' = Call("resume_game", None)
    /\ UNCHANGED <<config, loaded_chunks, current_center_chunk, height_cache, scene,
                   random_state, game_active, player, environment_manager, taskMgr, frame>>

\* handle_escape_key(), app.py lines 55-75: options_visible tells whether the
\* options menu is shown
HandleEscapeKey(options_visible) ==
    /\ game_paused' = IF game_active /\ ~game_paused THEN TRUE
                      ELSE IF game_active /\ game_paused /\ ~options_visible THEN FALSE
                      ELSE game_paused
    /\ call' = Call("handle_escape_key", options_visible)
    /\ UNCHANGED <<config, loaded_chunks, current_center_chunk, height_cache, scene,
                   random_state, game_active, player, environment_manager, taskMgr, frame>>

\* one frame of the task manager: every registered terrain task that is due
\* runs _update_terrain_chunks, environment.py lines 323-336; the task of the
\* running game calls update_visible_chunks with the player's position pos
Frame(pos) ==
    /\ frame' = frame + 1
    /\ taskMgr' = [i \in DOMAIN taskMgr |->
                      TaskAfterFrame(taskMgr[i], game_active, game_paused,
                                     environment_manager, frame + 1)]
    /\ IF \E i \in DOMAIN taskMgr :
              TaskUpdates(taskMgr[i], game_active, game_paused, environment_manager)
       THEN UpdateVisibleChunks(pos, NoFault)
       ELSE /\ call' = Call("frame", None)
            /\ UNCHANGED <<config, loaded_chunks, current_center_chunk, height_cache,
                           scene, random_state>>
    /\ UNCHANGED <<game_active, game_paused, player, environment_manager>>

StartGameStep ==
    /\ Event
    /\ \E pos \in StartPositions : StartGame(pos)
    /\ Logged
CleanupGameSessionStep ==
    /\ Event
    /\ CleanupGameSession
    /\ Logged
PauseGameStep ==
    /\ Event
    /\ PauseGame
    /\ Logged
ResumeGameStep ==
    /\ Event
    /\ ResumeGame
    /\ Logged
HandleEscapeKeyStep ==
    /\ Event
    /\ \E options_visible \in BOOLEAN : HandleEscapeKey(options_visible)
    /\ Logged
FrameStep ==
    /\ Event
    /\ \E pos \in Positions : Frame(pos)
    /\ Logged

\* the events of the application: the menus start and end games, the escape
\* key and the pause menu pause and resume, the task manager runs frames
NextApp ==
    \/ StartGameStep
    \/ CleanupGameSessionStep
    \/ PauseGameStep
    \/ ResumeGameStep
    \/ HandleEscapeKeyStep
    \/ FrameStep

SpecApp == Init /\ [][NextApp]_vars

(***************************************************************************)
(* Properties                                                              *)
(***************************************************************************)
\* the chunk of the position of the last call, by floor division
CallCentre == <<call.arg[1] \div (chunk_size * WU), call.arg[2] \div (chunk_size * WU)>>
\* the same for the call a step makes
NextCentre == <<call'.arg[1] \div (chunk_size * WU), call'.arg[2] \div (chunk_size * WU)>>
\* the chunks at squared distance at most view_distance^2 of chunk c
Circle(c) ==
    {k \in ((c[1] - view_distance - 1)..(c[1] + view_distance + 1))
           \X ((c[2] - view_distance - 1)..(c[2] + view_distance + 1)) :
        (k[1] - c[1]) * (k[1] - c[1]) + (k[2] - c[2]) * (k[2] - c[2])
            <= view_distance * view_distance}
\* a step is a call of update_visible_chunks with a position
UpdateCalled == calls' # calls /\ call'.op = "update_visible_chunks" /\ call'.arg # None

\* C1: after every update_visible_chunks(pos) call with a position, the keys
\* of loaded_chunks are exactly the chunks (x, y) with
\* (x - cx)^2 + (y - cy)^2 <= view_distance^2 around the chunk (cx, cy) of pos.
C1_ResidentEqualsCircle ==
    (call.op = "update_visible_chunks" /\ call.arg # None)
        => DOMAIN loaded_chunks = Circle(CallCentre)

\* an update has moved the centre to chunk (1, 0), evicting and building chunks
C1_Witness ==
    /\ call.op = "update_visible_chunks" /\ call.arg # None
    /\ current_center_chunk = <<1, 0>>
    /\ call.removed # {} /\ call.built # <<>>
    /\ calls >= 2

\* C2: an update_visible_chunks call whose position lies in the current centre
\* chunk builds nothing, evicts nothing, and leaves loaded_chunks, the scene
\* and current_center_chunk as they were.
C2_SameCentreNoOp ==
    [][(UpdateCalled /\ NextCentre = current_center_chunk)
          => /\ call'.built = <<>> /\ call'.attached = {} /\ call'.removed = {}
             /\ loaded_chunks' = loaded_chunks
             /\ scene' = scene
             /\ current_center_chunk' = current_center_chunk]_vars

\* an update at the centre chunk has returned with chunks loaded
C2_Witness ==
    /\ call.op = "update_visible_chunks" /\ call.arg # None
    /\ CallCentre = current_center_chunk
    /\ call.built = <<>> /\ call.removed = {}
    /\ DOMAIN loaded_chunks # {}
    /\ calls >= 2

\* C3: with view_distance = 3 the first update at chunk (0, 0) leaves exactly
\* the 29 chunks with dx^2 + dy^2 <= 9 loaded, and a following update at chunk
\* (1, 0) leaves exactly the 29 chunks with (x - 1)^2 + y^2 <= 9 loaded, the
\* chunks of the old circle outside the new one evicted.
C3_TwentyNineChunks ==
    [][/\ (view_distance = 3 /\ calls = 0 /\ UpdateCalled /\ NextCentre = <<0, 0>>)
            => /\ Cardinality(DOMAIN loaded_chunks') = 29
               /\ DOMAIN loaded_chunks' =
                    {k \in (-3..3) \X (-3..3) : k[1] * k[1] + k[2] * k[2] <= 9}
       /\ (/\ view_distance = 3 /\ calls = 1
           /\ call.op = "update_visible_chunks" /\ current_center_chunk = <<0, 0>>
           /\ UpdateCalled /\ NextCentre = <<1, 0>>)
            => /\ Cardinality(DOMAIN loaded_chunks') = 29
               /\ DOMAIN loaded_chunks' =
                    {k \in (-2..4) \X (-3..3) : (k[1] - 1) * (k[1] - 1) + k[2] * k[2] <= 9}
               /\ {nd.chunk : nd \in call'.removed} =
                    {k \in (-3..3) \X (-3..3) :
                        /\ k[1] * k[1] + k[2] * k[2] <= 9
                        /\ (k[1] - 1) * (k[1] - 1) + k[2] * k[2] > 9}
               /\ call'.removed \cap DOMAIN scene' = {}]_vars

\* the second call was an update at chunk (1, 0) that evicted the seven chunks
\* of the circle around (0, 0) that lie outside the circle around (1, 0)
C3_Witness ==
    /\ calls = 2 /\ call.op = "update_visible_chunks"
    /\ current_center_chunk = <<1, 0>>
    /\ Cardinality(DOMAIN loaded_chunks) = 29
    /\ Cardinality(call.removed) = 7
    /\ \E nd \in call.removed : nd.chunk = <<-3, 0>>

\* C4: in one update_visible_chunks call the chunks are built in
\* non-decreasing order of squared distance to the new centre chunk.
C4_ClosestFirst ==
    (call.op = "update_visible_chunks" /\ call.arg # None)
        => \A i, j \in 1..Len(call.built) :
              i < j =>
                 (call.built[i][1] - CallCentre[1]) * (call.built[i][1] - CallCentre[1])
                 + (call.built[i][2] - CallCentre[2]) * (call.built[i][2] - CallCentre[2])
                 <= (call.built[j][1] - CallCentre[1]) * (call.built[j][1] - CallCentre[1])
                    + (call.built[j][2] - CallCentre[2]) * (call.built[j][2] - CallCentre[2])

\* an update built the whole circle, from the centre chunk to a chunk at distance 3
C4_Witness ==
    /\ call.op = "update_visible_chunks" /\ call.arg # None
    /\ Len(call.built) = 29
    /\ call.built[1] = CallCentre
    /\ \E k \in {call.built[29]} :
          (k[1] - CallCentre[1]) * (k[1] - CallCentre[1])
          + (k[2] - CallCentre[2]) * (k[2] - CallCentre[2]) = 9

\* C5: an update_visible_chunks call that changes the centre removes the node
\* and the key of every loaded chunk outside the new visible set, and every
\* loaded chunk inside it keeps its node: not removed, not built again.
C5_EvictOutsideKeepInside ==
    [][(UpdateCalled /\ NextCentre # current_center_chunk)
          => \A k \in DOMAIN loaded_chunks :
                IF k \in Circle(NextCentre)
                THEN /\ k \in DOMAIN loaded_chunks'
                     /\ loaded_chunks'[k] = loaded_chunks[k]
                     /\ loaded_chunks[k] \notin call'.removed \cup call'.attached
                     /\ \A n \in 1..Len(call'.built) : call'.built[n] # k
                     /\ loaded_chunks[k] \in DOMAIN scene'
                     /\ scene'[loaded_chunks[k]] = scene[loaded_chunks[k]]
                ELSE /\ k \notin DOMAIN loaded_chunks'
                     /\ loaded_chunks[k] \in call'.removed
                     /\ loaded_chunks[k] \notin DOMAIN scene']_vars

\* an update evicted chunks, built chunks and kept chunks
C5_Witness ==
    /\ call.op = "update_visible_chunks" /\ call.arg # None
    /\ call.removed # {} /\ call.built # <<>>
    /\ Cardinality(DOMAIN loaded_chunks) > Len(call.built)
    /\ \A nd \in call.removed : nd \notin DOMAIN scene

\* C6: create_terrain_chunk(cx, cy) for a chunk that is a key of
\* loaded_chunks returns the node loaded_chunks holds, attaches no node and
\* leaves loaded_chunks and the scene as they were.
C6_CreateLoadedChunkIdempotent ==
    [][(/\ calls' # calls /\ call'.op = "create_terrain_chunk"
        /\ call'.arg \in DOMAIN loaded_chunks)
          => /\ call'.ret = loaded_chunks[call'.arg]
             /\ call'.attached = {} /\ call'.built = <<>>
             /\ scene' = scene
             /\ loaded_chunks' = loaded_chunks]_vars

\* create_terrain_chunk has returned the node of a chunk that was loaded
C6_Witness ==
    /\ call.op = "create_terrain_chunk"
    /\ call.built = <<>> /\ call.attached = {}
    /\ call.arg \in DOMAIN loaded_chunks
    /\ call.ret = loaded_chunks[call.arg]

\* C7: when the engine fails to build the geometry of a cell during
\* update_visible_chunks (it returns none, or it raises an error), the update
\* still completes: every visible chunk is loaded, the chunk of the failed
\* cell included, with the geometry of its other cells.
C7_UpdateSurvivesBuildFailure ==
    (call.op = "update_visible_chunks" /\ call.hit # {})
        => /\ ~call.raised
           /\ DOMAIN loaded_chunks = Circle(CallCentre)
           /\ \A h \in call.hit :
                 /\ h.chunk \in DOMAIN loaded_chunks
                 /\ loaded_chunks[h.chunk] \in DOMAIN scene
                 /\ h.cell \notin scene[loaded_chunks[h.chunk]]

\* C8: when geometry construction fails for one cell in create_terrain_chunk,
\* that cell gets no segment, every other cell of the grid that is to be
\* meshed gets its segment, and the chunk is a key of loaded_chunks.
C8_FailedCellSkippedChunkRecorded ==
    \A h \in call.hit :
        /\ h.chunk \in DOMAIN loaded_chunks
        /\ loaded_chunks[h.chunk] \in DOMAIN scene
        /\ scene[loaded_chunks[h.chunk]] =
              PlanOf(terrain_settings, noise_gen, chunk_size, h.chunk[1], h.chunk[2]).meshed
                  \ {h.cell}

\* the entries of height_cache are entries of the next state, with their values
CacheKept == height_cache @@ height_cache' = height_cache'

\* C9, as stated: no operation, cleanup included, removes an entry of
\* height_cache or changes its value.
C9_EntriesNeverRemoved == [][CacheKept]_vars

\* C9, amended: no operation other than cleanup removes an entry of
\* height_cache or changes its value; cleanup empties the cache.
C9_EntriesKeptUntilCleanup ==
    [][IF calls' # calls /\ call'.op = "cleanup"
       THEN DOMAIN height_cache' = {}
       ELSE CacheKept]_vars

\* a call other than cleanup has added entries to a cache that held entries,
\* after at least one earlier call
C9_Witness ==
    /\ calls >= 2 /\ call.op # "cleanup"
    /\ call.noise > 0
    /\ Cardinality(DOMAIN height_cache) * NoiseCallsPerMiss(terrain_settings) > call.noise

\* C10: calculate_terrain_height(x, y) returns the height computed from
\* (x, y) and the configuration alone, hence the same value at every call; a
\* call whose key is cached evaluates no noise and leaves height_cache as it was.
C10_HeightStableCacheHitFree ==
    [][(calls' # calls /\ call'.op = "calculate_terrain_height")
          => /\ call'.ret = CalcHeight(terrain_settings, noise_gen,
                                       call'.arg[1], call'.arg[2])
             /\ call'.arg \in DOMAIN height_cache
                  => /\ call'.noise = 0
                     /\ height_cache' = height_cache
                     /\ call'.ret = height_cache[call'.arg]]_vars

\* calculate_terrain_height has answered from the cache
C10_Witness ==
    /\ call.op = "calculate_terrain_height"
    /\ call.noise = 0
    /\ call.arg \in DOMAIN height_cache
    /\ call.ret = height_cache[call.arg]

\* C11: a generator is never constructed with a non-positive chunk_size or
\* view_distance (such a configuration is rejected by the constructor), so no
\* update_visible_chunks call runs with chunk_size <= 0 or view_distance <= 0.
C11_InvalidConfigRejected ==
    call.op = "update_visible_chunks" => chunk_size > 0 /\ view_distance > 0

\* C12: fbm(x, y, octaves, persistence, lacunarity) with octaves <= 0 returns 0
\* and raises no error (the division is by max(max_value, 1e-6), never by 0).
C12_FbmZeroOctaves ==
    call.op = "fbm" /\ call.arg[3] <= 0 => call.ret = 0 /\ ~call.raised

\* fbm has been called with no octave and with a negative number of octaves
\* (at a point where one octave of noise is not 0)
C12_Witness ==
    /\ call.op = "fbm" /\ call.arg[3] <= 0 /\ call.ret = 0
    /\ Noise2d(noise_gen, call.arg[1], call.arg[2]) # 0

\* C13: two runs of generate_chunk_features for the same chunk coordinate draw
\* the same sequence of candidate positions and accept the same candidates,
\* whatever ran in between: the log never holds two different scatters of one
\* chunk.
C13_ScatterRepeatable ==
    \A e1, e2 \in scatter_log :
        e1.chunk = e2.chunk => e1.candidates = e2.candidates /\ e1.accepted = e2.accepted

\* generate_chunk_features ran for a chunk scattered before (all the heights
\* of its candidates were cached: the call evaluated no noise), two calls
\* after the first, and drew a candidate
C13_Witness ==
    /\ call.op = "generate_chunk_features"
    /\ Len(call.scattered) = 1 /\ Len(call.scattered[1].candidates) > 0
    /\ call.noise = 0
    /\ calls = 3

\* C14: running generate_chunk_features leaves the state of the process-wide
\* random generator unchanged (the scatter draws from a generator of its own).
C14_ScatterKeepsGlobalRandom ==
    [][call'.op = "generate_chunk_features" => random_state' = random_state]_vars

\* C15: a chunk built by update_visible_chunks gets a feature scatter exactly
\* when generate_features is enabled and its distance to the current centre
\* chunk is less than view_distance - 1, wherever the player is.
C15_ScatterWithinInnerRadius ==
    call.op = "update_visible_chunks" /\ call.arg # None /\ ~call.raised =>
        \A i \in 1..Len(call.built) :
            (\E j \in 1..Len(call.scattered) : call.scattered[j].chunk = call.built[i])
            <=> /\ terrain_settings.generate_features
                /\ view_distance - 1 > 0
                /\ (call.built[i][1] - CallCentre[1]) * (call.built[i][1] - CallCentre[1])
                     + (call.built[i][2] - CallCentre[2]) * (call.built[i][2] - CallCentre[2])
                   < (view_distance - 1) * (view_distance - 1)

\* C16: at every operation boundary a chunk root node is attached under the
\* terrain root if and only if it is the value of exactly one key of
\* loaded_chunks: the attached nodes are the values of the map, and no two
\* keys share a node.
C16_ResidencyMatchesScene ==
    /\ DOMAIN scene = {loaded_chunks[k] : k \in DOMAIN loaded_chunks}
    /\ \A k1, k2 \in DOMAIN loaded_chunks : loaded_chunks[k1] = loaded_chunks[k2] => k1 = k2

\* C17: once the constructor has returned no operation changes the
\* configuration: terrain_settings, chunk_size, view_distance and
\* height_scale are the same after every call as before it
C17_ConfigurationFixed ==
    [][/\ terrain_settings' = terrain_settings
       /\ chunk_size' = chunk_size
       /\ view_distance' = view_distance
       /\ height_scale' = height_scale]_vars
\* a cleanup that removed chunks, after two other calls, left the
\* configuration of the constructor
C17_Witness ==
    /\ call.op = "cleanup" /\ call.removed # {}
    /\ calls = MaxCalls
    /\ terrain_settings = TheSettings
    /\ chunk_size = TheSettings.chunk_size
    /\ view_distance = TheSettings.view_distance
    /\ height_scale = TheSettings.height_scale

C19_FbmInRange ==
    call.op = "fbm" /\ call.arg[3] \in 1..MaxOctaves =>
        ~call.raised /\ call.ret \in -FP..FP
\* fbm with eight octaves returned a negative value
C19_Witness ==
    /\ call.op = "fbm" /\ call.arg[3] = MaxOctaves
    /\ call.ret < 0 /\ call.ret >= -FP
    /\ call.ret # Noise2d(noise_gen, call.arg[1], call.arg[2])

\* C20: an update maps the position to its centre chunk by floor division:
\* the position lies inside the world square of the centre chunk on both
\* axes, and a position with x in [-chunk_size, 0) has chunk x = -1
C20_CentreByFloorDivision ==
    call.op = "update_visible_chunks" /\ call.arg # None /\ ~call.raised =>
        /\ current_center_chunk # None
        /\ \A i \in 1..2 :
             /\ current_center_chunk[i] * ChunkSpan(chunk_size) <= call.arg[i]
             /\ call.arg[i] < (current_center_chunk[i] + 1) * ChunkSpan(chunk_size)
        /\ (call.arg[1] \in (-ChunkSpan(chunk_size))..(-1) => current_center_chunk[1] = -1)
\* an update at a position half a world unit below zero on x built the
\* chunks around chunk (-1, 0)
C20_Witness ==
    /\ call.op = "update_visible_chunks" /\ call.arg # None /\ ~call.raised
    /\ call.arg[1] < 0
    /\ current_center_chunk = <<-1, 0>>
    /\ Len(call.built) > 0

\* the cell c of chunk k has its four corner heights (as cached) below
\* water_level - 1.0
DeepUnderWater(k, c) ==
    \A p \in CellCorners(CellOrigin(terrain_settings, chunk_size, k[1], k[2], c),
                          MeshStep(terrain_settings)) :
        p \in DOMAIN height_cache /\ height_cache[p] < terrain_settings.water_level - FP
\* C21: in a chunk a call built, a cell has no segment exactly when its four
\* corner heights are below water_level - 1.0, or the engine built none for it
C21_SkippedIffDeepUnderWater ==
    call.op \in {"update_visible_chunks", "create_terrain_chunk"} /\ ~call.raised =>
        \A i \in 1..Len(call.built) :
            /\ call.built[i] \in DOMAIN loaded_chunks
            /\ loaded_chunks[call.built[i]] \in DOMAIN scene
            /\ \A c \in Cells(terrain_settings, chunk_size) :
                 c \notin scene[loaded_chunks[call.built[i]]]
                 <=> \/ DeepUnderWater(call.built[i], c)
                     \/ [chunk |-> call.built[i], cell |-> c] \in call.hit
\* an update built a chunk with a skipped cell, a meshed cell, and a meshed
\* cell with a corner deep under water
C21_Witness ==
    /\ call.op = "update_visible_chunks" /\ ~call.raised /\ call.hit = {}
    /\ \E i \in 1..Len(call.built) :
          \E c1, c2 \in Cells(terrain_settings, chunk_size) :
            /\ c1 \notin scene[loaded_chunks[call.built[i]]]
            /\ DeepUnderWater(call.built[i], c1)
            /\ c2 \in scene[loaded_chunks[call.built[i]]]
            /\ \E p \in CellCorners(CellOrigin(terrain_settings, chunk_size,
                                                call.built[i][1], call.built[i][2], c2),
                                     MeshStep(terrain_settings)) :
                  height_cache[p] < terrain_settings.water_level - FP

\* C23: whatever the order of generate_terrain_and_features,
\* update_visible_chunks and cleanup, whenever current_center_chunk is set the
\* keys of loaded_chunks are the visible circle around it
C23_ResidentCircleInAnyOrder ==
    current_center_chunk # None => DOMAIN loaded_chunks = Circle(current_center_chunk)

\* C24: generate_terrain_and_features with the centre unset builds exactly
\* the circle around chunk (0, 0) and sets the centre to (0, 0); an update that
\* follows is a no-op at chunk (0, 0) and yields the circle of its chunk
\* elsewhere; with the centre set it builds nothing and changes no state
C24_FallbackGrid ==
    [][/\ (call'.op = "generate_terrain_and_features" /\ calls' # calls
            /\ current_center_chunk = None)
          => /\ {call'.built[i] : i \in 1..Len(call'.built)} = Circle(<<0, 0>>)
             /\ Len(call'.built) = Cardinality(Circle(<<0, 0>>))
             /\ DOMAIN loaded_chunks' = Circle(<<0, 0>>)
             /\ current_center_chunk' = <<0, 0>>
       /\ (call'.op = "generate_terrain_and_features" /\ calls' # calls
            /\ current_center_chunk # None)
          => /\ call'.built = <<>> /\ call'.removed = {}
             /\ UNCHANGED <<config, loaded_chunks, current_center_chunk, height_cache,
                            scene, random_state>>
       /\ (call.op = "generate_terrain_and_features" /\ call.built # <<>> /\ UpdateCalled)
          => IF NextCentre = <<0, 0>>
             THEN /\ call'.built = <<>> /\ call'.removed = {}
                  /\ UNCHANGED <<loaded_chunks, current_center_chunk, scene>>
             ELSE /\ DOMAIN loaded_chunks' = Circle(NextCentre)
                  /\ current_center_chunk' = NextCentre]_vars
\* generate_terrain_and_features built the fallback grid around chunk (0, 0)
C24_Witness ==
    /\ call.op = "generate_terrain_and_features"
    /\ Len(call.built) = Cardinality(Circle(<<0, 0>>))
    /\ DOMAIN loaded_chunks = Circle(<<0, 0>>)
    /\ current_center_chunk = <<0, 0>>

\* C28: update_visible_chunks(None) raises no error and leaves loaded_chunks,
\* current_center_chunk and height_cache as they were
C28_NoPositionNoOp ==
    [][(calls' # calls /\ call'.op = "update_visible_chunks" /\ call'.arg = None)
          => /\ ~call'.raised
             /\ call'.built = <<>> /\ call'.removed = {}
             /\ UNCHANGED <<loaded_chunks, current_center_chunk, height_cache>>]_vars
\* update_visible_chunks(None) was called on a generator with chunks loaded
C28_Witness ==
    /\ call.op = "update_visible_chunks" /\ call.arg = None /\ ~call.raised
    /\ current_center_chunk # None
    /\ DOMAIN loaded_chunks # {} /\ DOMAIN height_cache # {}

\* C29: the feature seeds of two distinct chunks are distinct, so that the
\* two chunks do not scatter from one random sequence
C29_SeedsDistinct ==
    call.op = "feature_seed" /\ call.arg[2] # call.arg[3] =>
        /\ call.ret[1] # call.ret[2]
        /\ Abs(call.ret[1]) # Abs(call.ret[2])
\* C29 amended: the feature seeds of two distinct chunks that scatter (those
\* within view_distance - 1 of the origin) are distinct, and all positive,
\* hence seeds of distinct sequences, when the base seed is above 2002
C29_SeedsDistinctNearOrigin ==
    (/\ call.op = "feature_seed" /\ call.arg[2] # call.arg[3]
     /\ ~FarFromOrigin(view_distance, call.arg[2][1], call.arg[2][2])
     /\ ~FarFromOrigin(view_distance, call.arg[3][1], call.arg[3][2])) =>
        /\ call.ret[1] # call.ret[2]
        /\ (call.arg[1] > 2002 => Abs(call.ret[1]) # Abs(call.ret[2]))
\* the seeds of chunks (-2, 0) and (0, 2) were computed from a base seed above 2002
C29_Witness ==
    /\ call.op = "feature_seed" /\ call.arg[1] > 2002
    /\ call.arg[2] = <<-2, 0>> /\ call.arg[3] = <<0, 2>>
    /\ call.ret[1] > 0 /\ call.ret[1] # call.ret[2]

\* C30: for every integer cell, negative or beyond 255, noise2d indexes perm
\* inside its 512 entries and grad2 inside its 8 entries, and the gradients
\* selected are those of the cell 256 further on x and of the cell 256
\* further on y
C30_LookupsInRange ==
    call.op = "noise2d lookups" =>
        /\ ~call.raised
        /\ \A i \in 1..4 :
             /\ call.ret.here[i].inner \in 0..511
             /\ call.ret.here[i].outer \in 0..511
             /\ call.ret.here[i].g_idx \in 0..7
             /\ call.ret.shifted_x[i].g_idx = call.ret.here[i].g_idx
             /\ call.ret.shifted_y[i].g_idx = call.ret.here[i].g_idx
\* noise2d was asked for a point of cell (-1, 1000), whose corners wrap to
\* rows 232 and 233 and columns 255 and 256
C30_Witness ==
    /\ call.op = "noise2d lookups" /\ call.arg = <<-1, 1000>> /\ ~call.raised
    /\ call.ret.here[1].inner = 232 /\ call.ret.here[2].inner = 233
    /\ call.ret.here[4].g_idx \in 0..7

\* C22: the terrain task calls update_visible_chunks at intervals, not in
\* every frame: while the game is active and not paused, a task that called
\* it in one frame does not call it in the next
C22_UpdateAtIntervals ==
    [][\A i \in DOMAIN taskMgr :
          ~(/\ frame > 0 /\ frame' = frame + 1
            /\ game_active /\ ~game_paused
            /\ taskMgr[i].updated = frame
            /\ taskMgr'[i].updated = frame')]_vars

\* C25: at most one terrain update task is registered at any time, and none
\* once cleanup_game_session has left no game active
C25_OneTerrainTask ==
    /\ Len(taskMgr) <= 1
    /\ (~game_active /\ environment_manager = NoManager => taskMgr = <<>>)

\* C26: a frame run while the game is paused or not active calls no
\* update_visible_chunks and leaves loaded_chunks and current_center_chunk as
\* they were, and every task stays registered and due; a frame run while the
\* game is active and not paused calls update_visible_chunks
C26_NoStreamingWhilePaused ==
    [][/\ ((frame' # frame /\ (game_paused \/ ~game_active)) =>
              (/\ call'.op # "update_visible_chunks"
               /\ UNCHANGED <<loaded_chunks, current_center_chunk>>
               /\ Len(taskMgr') = Len(taskMgr)
               /\ \A i \in DOMAIN taskMgr :
                    (taskMgr'[i].env = taskMgr[i].env /\ taskMgr'[i].sleep = 0)))
       /\ ((frame' # frame /\ game_active /\ ~game_paused) =>
              (/\ call'.op = "update_visible_chunks" /\ call'.arg # None
               /\ current_center_chunk' = NextCentre))]_vars
\* a frame was run while the game was paused: the task of the game has not
\* called update_visible_chunks yet, the chunks of the game's start are loaded
C26_Witness ==
    /\ call.op = "frame" /\ frame > 0
    /\ game_active /\ game_paused
    /\ taskMgr # <<>> /\ taskMgr[Len(taskMgr)].updated = 0
    /\ DOMAIN loaded_chunks = Circle(current_center_chunk)

\* C27: game_paused implies game_active in every state; pause_game changes
\* the state only when the game is active and not paused, resume_game only
\* when it is active and paused; cleanup_game_session leaves both flags
\* false and player and environment_manager None
C27_PauseFlags ==
    /\ (game_paused => game_active)
    /\ [][/\ (game_paused' => game_active')
           /\ ((call'.op = "pause_game" /\ calls' # calls /\ ~(game_active /\ ~game_paused)) =>
                  UNCHANGED <<app, config, loaded_chunks, current_center_chunk,
                              height_cache, scene, random_state>>)
           /\ ((call'.op = "resume_game" /\ calls' # calls /\ ~(game_active /\ game_paused)) =>
                  UNCHANGED <<app, config, loaded_chunks, current_center_chunk,
                              height_cache, scene, random_state>>)
           /\ ((call'.op = "cleanup_game_session" /\ calls' # calls) =>
                  (/\ ~game_active' /\ ~game_paused'
                   /\ player' = NoPlayer /\ environment_manager' = NoManager))]_vars
\* cleanup_game_session ended a game after a frame had run
C27_Witness ==
    /\ call.op = "cleanup_game_session"
    /\ ~game_active /\ ~game_paused
    /\ player = NoPlayer /\ environment_manager = NoManager
    /\ frame > 0 /\ taskMgr # <<>>

====
